---- MODULE Spec2Model ----
(***************************************************************************)
(* Model of the 2FA tooling of Kitsu-for-Docker:                           *)
(*   scripts/enforce_2fa.py        the audit / enforce / enable-user CLI   *)
(*   scripts/zou_2fa_middleware.py the before-request gate                 *)
(*                                                                         *)
(* Strings the code converts (emails, the confirmation answer, the values  *)
(* of environment variables) are sequences of one-character strings, so    *)
(* that lower(), strip() and split(',') are computed and not assumed.      *)
(***************************************************************************)
EXTENDS Integers, Sequences, FiniteSets, TLC

\* ------------------------------------------------------------------ bounds

\* Number of rows of the person table.
NumAccounts == 2

\* ------------------------------------------------------------- str methods

UpperChars ==
    <<"A", "B", "C", "D", "E", "F", "G", "H", "I", "J", "K", "L", "M",
      "N", "O", "P", "Q", "R", "S", "T", "U", "V", "W", "X", "Y", "Z">>

LowerChars ==
    <<"a", "b", "c", "d", "e", "f", "g", "h", "i", "j", "k", "l", "m",
      "n", "o", "p", "q", "r", "s", "t", "u", "v", "w", "x", "y", "z">>

LowerChar(c) ==
    IF \E i \in DOMAIN UpperChars : UpperChars[i] = c
    THEN LowerChars[CHOOSE i \in DOMAIN UpperChars : UpperChars[i] = c]
    ELSE c

\* str.lower()
StrLower(s) == [i \in 1..Len(s) |-> LowerChar(s[i])]

IsSpace(c) == c \in {" ", "\t", "\n"}

RECURSIVE LStripSpace(_)
LStripSpace(s) ==
    IF s # <<>> /\ IsSpace(Head(s)) THEN LStripSpace(Tail(s)) ELSE s

RECURSIVE RStripSpace(_)
RStripSpace(s) ==
    IF s # <<>> /\ IsSpace(s[Len(s)])
    THEN RStripSpace(SubSeq(s, 1, Len(s) - 1))
    ELSE s

\* str.strip()
StrStrip(s) == RStripSpace(LStripSpace(s))

\* str.split(sep) for a one-character separator: the pieces between the
\* separators, empty pieces included.
RECURSIVE SplitFrom(_, _, _)
SplitFrom(s, sep, cur) ==
    IF s = <<>> THEN <<cur>>
    ELSE IF Head(s) = sep THEN <<cur>> \o SplitFrom(Tail(s), sep, <<>>)
    ELSE SplitFrom(Tail(s), sep, Append(cur, Head(s)))

StrSplit(s, sep) == SplitFrom(s, sep, <<>>)

\* x in list
InList(x, list) == \E i \in DOMAIN list : list[i] = x

\* ------------------------------------------------------------- the values

\* Python's None / SQL NULL in an email column (not a string).
None == <<"None">>

s_a == <<"a", "@", "x">>
s_A == <<"A", "@", "x">>
s_b == <<"b", "@", "x">>
s_c == <<"c", "@", "x">>

yes == <<"y", "e", "s">>

\* What the operator may type at a prompt.
Answers == { yes, <<"Y", "e", "s">>, <<"n", "o">>, <<"y">> }

\* Values of the 2FA_EXEMPT_USERS environment variable:
\*   unset or "", and " A@x,b@x "
ExemptEnvValues ==
    { <<>>,
      <<" ", "A", "@", "x", ",", "b", "@", "x", " ">> }

EmailValues == { None, s_a, s_A, s_b, s_c }

\* The emails given to --enable-user.
EnableTargets == { s_a, s_b }

Ids == 1..NumAccounts

\* The emails row i may hold: the first row's differ in letter case only, the
\* second row's email may be NULL, the others are fixed. Non-null emails are
\* unique in the table.
EmailChoices(i) ==
    IF i = 1 THEN {s_a, s_A}
    ELSE IF i = 2 THEN {s_b, None}
    ELSE {s_c}

\* The 2FA flags of a row (totp, email_otp, fido): none, or one method.
FlagChoices ==
    { <<FALSE, FALSE, FALSE>>, <<TRUE, FALSE, FALSE>>,
      <<FALSE, TRUE, FALSE>>, <<FALSE, FALSE, TRUE>> }

\* A row of the person table (the columns the scripts read or write).
Row(email, flags, active) ==
    [ email |-> email,
      totp_enabled |-> flags[1],
      email_otp_enabled |-> flags[2],
      fido_enabled |-> flags[3],
      active |-> active,
      role |-> "user" ]

Stores ==
    { p \in [Ids -> { Row(e, f, a) : e \in EmailValues, f \in FlagChoices,
                                     a \in BOOLEAN }] :
        \A i \in Ids : p[i].email \in EmailChoices(i) }

\* ------------------------------------------------- the state of the model

VARIABLES
    person,     \* the committed content of the person table: id -> row
    environ,    \* os.environ: the variables the scripts read
    run,        \* the CLI operation that ran last: what it was given and did
    prev,       \* what the CLI operation before it was
    gate,       \* the constructed Enforce2FAMiddleware: its two attributes
    request,    \* the request the gate handled last, and who sent it
    response,   \* what check_2fa_requirement did with that request
    host,       \* the host application: how it was started, its hooks
    earlier     \* the request handled before the last one, and its response

vars ==
    <<person, environ, run, prev, gate, request, response, host, earlier>>

\* ------------------------------------------- psycopg2 / PostgreSQL session
\* The scripts use one connection with psycopg2's default isolation: the first
\* execute() opens a transaction that lasts until commit() or rollback().
\*   "ready"    the connection is open and its transaction is usable
\*   "aborted"  a statement failed on the server: PostgreSQL rejects every
\*              later statement of the transaction (InFailedSqlTransaction)
\*              and answers COMMIT with a rollback, without an error
\*   "broken"   the connection is lost: every call raises psycopg2.Error

\* What the server or the network does to one statement.
StmtOutcomes == {"ok", "error", "lost"}

\* What happens to a COMMIT: done, refused by the server, or the connection
\* lost before / after the server made the transaction durable.
CommitOutcomes == {"ok", "error", "lost_before", "lost_after"}

\* cur.execute(statement): the connection afterwards, and whether the call
\* raised psycopg2.Error.
Execute(conn, out) ==
    IF conn = "broken" \/ out = "lost"
    THEN [conn |-> "broken", raised |-> TRUE]
    ELSE IF conn = "aborted" \/ out = "error"
    THEN [conn |-> "aborted", raised |-> TRUE]
    ELSE [conn |-> "ready", raised |-> FALSE]

\* conn.commit(): the connection afterwards, whether the call raised, and
\* whether the transaction's writes became durable.
Commit(conn, out) ==
    IF conn = "broken"
    THEN [conn |-> "broken", raised |-> TRUE, applied |-> FALSE]
    ELSE IF out \in {"lost_before", "lost_after"}
    THEN [conn |-> "broken", raised |-> TRUE,
          applied |-> (conn = "ready" /\ out = "lost_after")]
    ELSE IF conn = "aborted"
    THEN [conn |-> "ready", raised |-> FALSE, applied |-> FALSE]
    ELSE IF out = "error"
    THEN [conn |-> "ready", raised |-> TRUE, applied |-> FALSE]
    ELSE [conn |-> "ready", raised |-> FALSE, applied |-> TRUE]

\* conn.rollback(): raises on a lost connection, else ends the transaction.
Rollback(conn) ==
    IF conn = "broken"
    THEN [conn |-> "broken", raised |-> TRUE]
    ELSE [conn |-> "ready", raised |-> FALSE]

\* The ids of S in ascending order (the order the rows are listed in).
RECURSIVE SeqOf(_)
SeqOf(S) ==
    IF S = {} THEN <<>>
    ELSE LET m == CHOOSE x \in S : \A y \in S : x <= y
         IN <<m>> \o SeqOf(S \ {m})

\* The table with active set to v on the rows in ids.
SetActive(p, ids, v) ==
    [i \in DOMAIN p |-> IF i \in ids THEN [p[i] EXCEPT !.active = v] ELSE p[i]]

\* --------------------------------------------------------- enforce_2fa.py

\* get_exempt_users(): the stripped items of 2FA_EXEMPT_USERS, [] when unset
\* or empty.
get_exempt_users(exempt_users_str) ==
    IF exempt_users_str # <<>>
    THEN LET items == StrSplit(exempt_users_str, ",")
         IN [i \in 1..Len(items) |-> StrStrip(items[i])]
    ELSE <<>>

\* has_2fa with the FIDO flag forgotten.
has_2fa_without_fido(user) ==
    user.totp_enabled \/ user.email_otp_enabled

\* has_2fa = totp or email_otp or fido
has_2fa(user) ==
    user.totp_enabled \/ user.email_otp_enabled \/ user.fido_enabled

\* The record of a CLI operation before it has done anything.
NoRun ==
    [ op |-> "none",
      pre |-> <<>>,            \* the table when the operation started
      target |-> None,         \* enable-user: the email given
      fetched |-> FALSE,       \* the SELECT returned its rows
      status |-> "returned",   \* "returned" | "raised" (an exception left it)
      result |-> 0,            \* audit / enforce: the value returned
      success |-> FALSE,       \* enable-user: the value returned
      report |-> "none",       \* which closing message was printed
      asked |-> FALSE,         \* input() was called
      answer |-> <<>>,         \* what the operator typed
      listed |-> <<>>,         \* enforce: users_to_disable
      attempted |-> <<>>,      \* enforce: ids an UPDATE was issued for
      updated |-> {},          \* ids whose UPDATE returned without error
      without_2fa |-> <<>>,    \* audit: users_without_2fa
      with_2fa |-> <<>>,       \* audit: users_with_2fa
      inactive |-> <<>> ]      \* audit: inactive_users

\* The audit query: every row with an email (ORDER BY email only fixes the
\* order of the printed lines; the rows are kept here in id order).
AuditQuery(p) == SeqOf({i \in DOMAIN p : p[i].email # None})

\* AuditBucket with the "if not active" branch lost.
AuditBucketIgnoringActive(user) ==
    IF has_2fa(user) THEN "with_2fa" ELSE "without_2fa"

\* The bucket audit_users() appends a fetched row to.
AuditBucket(user) ==
    IF ~user.active THEN "inactive"
    ELSE IF has_2fa(user) THEN "with_2fa"
    ELSE "without_2fa"

\* audit_users(): the record of the run (it writes nothing).
audit_users(p, fetchOut) ==
    LET e == Execute("ready", fetchOut)
        users == AuditQuery(p)
        bucket(b) == SelectSeq(users, LAMBDA i : AuditBucket(p[i]) = b)
    IN IF e.raised
       THEN [NoRun EXCEPT !.op = "audit", !.pre = p, !.result = -1,
                          !.report = "database_error"]
       ELSE [NoRun EXCEPT !.op = "audit", !.pre = p, !.fetched = TRUE,
                          !.without_2fa = bucket("without_2fa"),
                          !.with_2fa = bucket("with_2fa"),
                          !.inactive = bucket("inactive"),
                          !.result = Len(bucket("without_2fa")),
                          !.report = "audit_report"]

\* EnforceQuery without its "active = TRUE" condition.
EnforceQueryIgnoringActive(p) ==
    SeqOf({i \in DOMAIN p :
             /\ p[i].totp_enabled = FALSE
             /\ p[i].email_otp_enabled = FALSE
             /\ p[i].fido_enabled = FALSE
             /\ p[i].email # None})

\* The enforce query: active rows with an email and the three flags false.
EnforceQuery(p) ==
    SeqOf({i \in DOMAIN p :
             /\ p[i].active = TRUE
             /\ p[i].totp_enabled = FALSE
             /\ p[i].email_otp_enabled = FALSE
             /\ p[i].fido_enabled = FALSE
             /\ p[i].email # None})

\* users_to_disable: the fetched rows whose email is not in exempt_users.
UsersToDisable(p, exempt_users) ==
    SelectSeq(EnforceQuery(p), LAMBDA i : ~InList(p[i].email, exempt_users))

\* Confirmed with every answer taken as a yes.
ConfirmedAnyAnswer(confirm) == TRUE

\* Confirmed with the comparison inverted.
ConfirmedInverted(confirm) == StrLower(confirm) # yes

\* confirm.lower() != 'yes' is the refusal; this is its negation.
Confirmed(confirm) == StrLower(confirm) = yes

\* DisableRow with a commit after each UPDATE (or an autocommit connection):
\* a row that was updated is durable at once.
DisableRowCommitting(acc, user_id, out) ==
    LET e == Execute(acc.conn, out)
    IN [acc EXCEPT !.conn = e.conn,
                   !.attempted = Append(@, user_id),
                   !.store = IF e.raised THEN @
                             ELSE SetActive(@, {user_id}, FALSE),
                   !.pending = IF e.raised THEN @ ELSE @ \cup {user_id},
                   !.disabled_count = IF e.raised THEN @ ELSE @ + 1]

\* One turn of the "Disable users" loop: the UPDATE of one row inside the
\* open transaction, counted when it did not raise.
DisableRow(acc, user_id, out) ==
    LET e == Execute(acc.conn, out)
    IN [acc EXCEPT !.conn = e.conn,
                   !.attempted = Append(@, user_id),
                   !.pending = IF e.raised THEN @ ELSE @ \cup {user_id},
                   !.disabled_count = IF e.raised THEN @ ELSE @ + 1]

\* The loop over users_to_disable, from position i on.
RECURSIVE DisableLoop(_, _, _, _)
DisableLoop(acc, users_to_disable, outs, i) ==
    IF i > Len(users_to_disable) THEN acc
    ELSE DisableLoop(DisableRow(acc, users_to_disable[i], outs[i]),
                     users_to_disable, outs, i + 1)

\* The except psycopg2.Error handler of enforce_2fa / enable_user: rollback,
\* then the failure value; an error of rollback() itself leaves the function.
AfterStorageError(r, conn) ==
    IF Rollback(conn).raised
    THEN [r EXCEPT !.status = "raised", !.report = "database_error"]
    ELSE [r EXCEPT !.result = -1, !.success = FALSE,
                   !.report = "database_error"]

\* enforce_2fa(): the table afterwards and the record of the run.
\*   fetchOut  what happens to the SELECT
\*   confirm   what the operator types if asked
\*   outs      what happens to the UPDATE at each position of the list
\*   cmt       what happens to the COMMIT
enforce_2fa(p, exempt_users_str, fetchOut, confirm, outs, cmt) ==
    LET exempt_users == get_exempt_users(exempt_users_str)
        r0 == [NoRun EXCEPT !.op = "enforce", !.pre = p]
        f == Execute("ready", fetchOut)
        users == EnforceQuery(p)
        users_to_disable == UsersToDisable(p, exempt_users)
        r1 == [r0 EXCEPT !.fetched = TRUE]
        r2 == [r1 EXCEPT !.listed = users_to_disable, !.asked = TRUE,
                         !.answer = confirm]
        acc == DisableLoop([conn |-> f.conn, store |-> p, pending |-> {},
                            disabled_count |-> 0, attempted |-> <<>>],
                           users_to_disable, outs, 1)
        c == Commit(acc.conn, cmt)
        after == IF c.applied THEN SetActive(acc.store, acc.pending, FALSE)
                 ELSE acc.store
        r3 == [r2 EXCEPT !.attempted = acc.attempted, !.updated = acc.pending]
    IN IF f.raised
       THEN [store |-> p, run |-> AfterStorageError(r0, f.conn)]
       ELSE IF users = <<>>
       THEN [store |-> p,
             run |-> [r1 EXCEPT !.result = 0, !.report = "no_action_all_2fa"]]
       ELSE IF users_to_disable = <<>>
       THEN [store |-> p,
             run |-> [r1 EXCEPT !.result = 0,
                                !.report = "no_action_all_exempt"]]
       ELSE IF ~Confirmed(confirm)
       THEN [store |-> p,
             run |-> [r2 EXCEPT !.result = 0, !.report = "cancelled"]]
       ELSE IF c.raised
       THEN [store |-> after, run |-> AfterStorageError(r3, c.conn)]
       ELSE [store |-> after,
             run |-> [r3 EXCEPT !.result = acc.disabled_count,
                                !.report = "disabled"]]

\* enable_user(email): the table afterwards and the record of the run.
enable_user(p, email, fetchOut, confirm, updOut, cmt) ==
    LET r0 == [NoRun EXCEPT !.op = "enable", !.pre = p, !.target = email]
        f == Execute("ready", fetchOut)
        found == {i \in DOMAIN p : p[i].email = email}
        user_id == CHOOSE i \in found : TRUE
        user == p[user_id]
        r1 == [r0 EXCEPT !.fetched = TRUE]
        ask == ~has_2fa(user)
        r2 == IF ask THEN [r1 EXCEPT !.asked = TRUE, !.answer = confirm]
              ELSE r1
        u == Execute(f.conn, updOut)
        c == Commit(u.conn, cmt)
        after == IF c.applied THEN SetActive(p, {user_id}, TRUE) ELSE p
        r3 == [r2 EXCEPT !.attempted = <<user_id>>]
        r4 == [r3 EXCEPT !.updated = {user_id}]
    IN IF f.raised
       THEN [store |-> p, run |-> AfterStorageError(r0, f.conn)]
       ELSE IF found = {}
       THEN [store |-> p,
             run |-> [r1 EXCEPT !.success = FALSE, !.report = "not_found"]]
       ELSE IF user.active
       THEN [store |-> p,
             run |-> [r1 EXCEPT !.success = TRUE,
                                !.report = "already_active"]]
       ELSE IF ask /\ ~Confirmed(confirm)
       THEN [store |-> p,
             run |-> [r2 EXCEPT !.success = FALSE, !.report = "cancelled"]]
       ELSE IF u.raised
       THEN [store |-> p, run |-> AfterStorageError(r3, u.conn)]
       ELSE IF c.raised
       THEN [store |-> after, run |-> AfterStorageError(r4, c.conn)]
       ELSE [store |-> after,
             run |-> [r4 EXCEPT !.success = TRUE, !.report = "enabled"]]

\* What the next operation keeps of the one before it: whether it was an
\* enforce run that was confirmed, returned its count and left every account
\* it listed inactive in table p.
Summary(r, p) ==
    [ disabled_all |-> /\ r.op = "enforce"
                       /\ r.asked /\ Confirmed(r.answer)
                       /\ r.report = "disabled"
                       /\ \A k \in DOMAIN r.listed : ~p[r.listed[k]].active ]

\* get_db_connection() when psycopg2.connect raises: the message and
\* sys.exit(1), before the operation has read or written anything.
connect_failed(p, op) ==
    [NoRun EXCEPT !.op = op, !.pre = p, !.status = "exit",
                  !.report = "connect_error"]

\* main() given an empty EMAIL: "elif args.enable_user" is false for "", no
\* operation is called and main() returns.
no_operation(p) ==
    [NoRun EXCEPT !.pre = p, !.target = <<>>, !.report = "nothing_run"]

\* main with an exception that leaves the operation taken for a success.
main_by_result_only(r) ==
    IF r.status = "exit" THEN 1
    ELSE IF r.op \in {"audit", "enforce"}
    THEN IF r.result >= 0 THEN 0 ELSE 1
    ELSE IF r.op = "enable"
    THEN IF r.success THEN 0 ELSE 1
    ELSE 0

\* main(): the exit code of the process, given the record of the operation.
\* sys.exit(1) of get_db_connection and an exception that nothing catches
\* both end the process with code 1 before main's own sys.exit is reached.
main(r) ==
    IF r.status = "exit" THEN 1
    ELSE IF r.status = "raised" THEN 1
    ELSE IF r.op \in {"audit", "enforce"}
    THEN IF r.result >= 0 THEN 0 ELSE 1
    ELSE IF r.op = "enable"
    THEN IF r.success THEN 0 ELSE 1
    ELSE 0

\* ------------------------------------------------------ the CLI as actions

NoGate == [require_2fa |-> FALSE, exempt_users |-> <<>>]

NoRequest == [path |-> <<>>]

NoResponse ==
    [kind |-> "none", looked_up |-> FALSE, status_code |-> 0,
     content_type |-> "", body |-> <<>>]

\* No server process has been started.
NoHost ==
    [ script |-> "none",       \* the start-up script that was run
      environ |-> <<>>,        \* os.environ when it ran
      zou_app |-> "none",      \* what "from zou.app import app" gave it
      load |-> "none",         \* what loading the middleware did
      exported |-> FALSE,      \* the module binds app to the Flask application
      handlers |-> 0,          \* before-request registrations of the gate
      executions |-> 0 ]       \* runs of the gate on the last request

NoEarlier == [request |-> NoRequest, response |-> NoResponse]

\* The CLI's state: a table, the exempt list of the environment, no
\* operation run yet.
Init ==
    /\ person \in Stores
    /\ environ \in [exempt : ExemptEnvValues, require : {<<>>}]
    /\ run = NoRun
    /\ prev = [disabled_all |-> FALSE]
    /\ gate = NoGate
    /\ request = NoRequest
    /\ response = NoResponse
    /\ host = NoHost
    /\ earlier = NoEarlier

\* python enforce_2fa.py --audit
Audit ==
    /\ \E fetchOut \in StmtOutcomes :
          run' = audit_users(person, fetchOut)
    /\ prev' = Summary(run, person)
    /\ UNCHANGED <<person, environ, gate, request, response, host, earlier>>

\* python enforce_2fa.py --enforce
\* The inputs enforce_2fa() does not read on a run are held fixed: no answer
\* when it does not ask, no UPDATE or COMMIT outcome when it does not write.
Enforce ==
    /\ \E fetchOut \in StmtOutcomes :
       LET todo == UsersToDisable(person, get_exempt_users(environ.exempt))
           asks == fetchOut = "ok" /\ todo # <<>>
       IN \E confirm \in IF asks THEN Answers ELSE {<<>>} :
          LET writes == asks /\ Confirmed(confirm)
          IN \E outs \in IF writes THEN [DOMAIN todo -> StmtOutcomes]
                                   ELSE {<<>>},
                cmt \in IF writes THEN CommitOutcomes ELSE {"ok"} :
             LET r == enforce_2fa(person, environ.exempt, fetchOut, confirm,
                                  outs, cmt)
             IN /\ person' = r.store
                /\ run' = r.run
    /\ prev' = Summary(run, person)
    /\ UNCHANGED <<environ, gate, request, response, host, earlier>>

\* python enforce_2fa.py --enable-user EMAIL
\* As for Enforce, the inputs enable_user() does not read are held fixed (the
\* COMMIT is not reached when the UPDATE raised).
EnableUser ==
    /\ \E email \in EnableTargets, fetchOut \in StmtOutcomes :
       LET found == {i \in Ids : person[i].email = email}
           inactive == fetchOut = "ok" /\ \E i \in found : ~person[i].active
           asks == inactive /\ \E i \in found : ~has_2fa(person[i])
       IN \E confirm \in IF asks THEN Answers ELSE {<<>>} :
          LET writes == inactive /\ (asks => Confirmed(confirm))
          IN \E updOut \in IF writes THEN StmtOutcomes ELSE {"ok"} :
             \E cmt \in IF writes /\ updOut = "ok" THEN CommitOutcomes
                                                  ELSE {"ok"} :
             LET r == enable_user(person, email, fetchOut, confirm, updOut,
                                  cmt)
             IN /\ person' = r.store
                /\ run' = r.run
    /\ prev' = Summary(run, person)
    /\ UNCHANGED <<environ, gate, request, response, host, earlier>>

\* Any of the three operations when the database cannot be reached.
ConnectFails ==
    /\ \E op \in {"audit", "enforce", "enable"} :
          run' = connect_failed(person, op)
    /\ prev' = Summary(run, person)
    /\ UNCHANGED <<person, environ, gate, request, response, host, earlier>>

\* python enforce_2fa.py --enable-user ""
EnableUserEmptyEmail ==
    /\ run' = no_operation(person)
    /\ prev' = Summary(run, person)
    /\ UNCHANGED <<person, environ, gate, request, response, host, earlier>>

Next ==
    Audit \/ Enforce \/ EnableUser \/ EnableUserEmptyEmail \/ ConnectFails

Spec == Init /\ [][Next]_vars

\* --------------------------------------------------- zou_2fa_middleware.py
\* A path is the sequence of its pieces, "/auth/login" being
\* <<"/", "auth/", "login">>: the string is the concatenation of the pieces.
\* Paths and patterns are cut at the same places, so that str.startswith on
\* the strings is the prefix relation on the sequences.

\* str.startswith(prefix)
StartsWith(s, prefix) ==
    Len(prefix) <= Len(s) /\ SubSeq(s, 1, Len(prefix)) = prefix

\* str.lstrip('/')
RECURSIVE LStripSlash(_)
LStripSlash(path) ==
    IF path # <<>> /\ Head(path) = "/" THEN LStripSlash(Tail(path)) ELSE path

\* os.getenv(name, default) for a variable whose value, or None, is v.
GetEnv(v, default) == IF v = None THEN default ELSE v

\* Values of the REQUIRE_2FA environment variable: unset, "True", "1".
RequireEnvValues == { None, <<"T", "r", "u", "e">>, <<"1">> }

\* Enforce2FAMiddleware._get_exempt_users(): the stripped, lower-cased items.
_get_exempt_users(exempt_users_str) ==
    IF exempt_users_str # <<>>
    THEN LET items == StrSplit(exempt_users_str, ",")
         IN [i \in 1..Len(items) |-> StrLower(StrStrip(items[i]))]
    ELSE <<>>

\* Enforce2FAMiddleware.__init__: the two attributes read from os.environ.
Enforce2FAMiddleware(env) ==
    [ require_2fa |->
          StrLower(GetEnv(env.require, <<"F", "a", "l", "s", "e">>))
              \in { <<"t", "r", "u", "e">>, <<"1">>, yes },
      exempt_users |-> _get_exempt_users(env.exempt) ]

\* _is_exempt_user reading 2FA_EXEMPT_USERS again on every call.
_is_exempt_user_rereading_environ(g, email) ==
    IF email = None \/ email = <<>> THEN FALSE
    ELSE InList(StrLower(email), _get_exempt_users(environ.exempt))

\* _is_exempt_user(email)
_is_exempt_user(g, email) ==
    IF email = None \/ email = <<>> THEN FALSE
    ELSE InList(StrLower(email), g.exempt_users)

\* _has_2fa_enabled(user)
_has_2fa_enabled(user) ==
    user.totp_enabled \/ user.email_otp_enabled \/ user.fido_enabled

\* allowed_patterns with only the entries that have no api/ prefix.
allowed_patterns_unprefixed ==
    << <<"auth/", "login">>,
       <<"auth/", "logout">>,
       <<"auth/", "authenticated">>,
       <<"auth/", "register">>,
       <<"auth/", "totp">>,
       <<"auth/", "fido">>,
       <<"auth/", "email-otp">>,
       <<"auth/", "recovery-codes">>,
       <<"static/">>,
       <<"config">>,
       <<"_health">>,
       <<"health">>,
       <<"actions/", "persons/", "enable-totp">>,
       <<"actions/", "persons/", "disable-totp">>,
       <<"actions/", "persons/", "enable-email-otp">>,
       <<"actions/", "persons/", "disable-email-otp">>,
       <<"actions/", "persons/", "register-fido-device">>,
       <<"actions/", "persons/", "unregister-fido-device">>,
       <<"actions/", "persons/", "generate-recovery-codes">> >>

\* allowed_patterns of _is_allowed_route, in its order.
allowed_patterns ==
    << <<"api/", "auth/", "login">>,
       <<"auth/", "login">>,
       <<"api/", "auth/", "logout">>,
       <<"auth/", "logout">>,
       <<"api/", "auth/", "authenticated">>,
       <<"auth/", "authenticated">>,
       <<"api/", "auth/", "register">>,
       <<"auth/", "register">>,
       <<"api/", "auth/", "totp">>,
       <<"auth/", "totp">>,
       <<"api/", "auth/", "fido">>,
       <<"auth/", "fido">>,
       <<"api/", "auth/", "email-otp">>,
       <<"auth/", "email-otp">>,
       <<"api/", "auth/", "recovery-codes">>,
       <<"auth/", "recovery-codes">>,
       <<"static/">>,
       <<"config">>,
       <<"_health">>,
       <<"health">>,
       <<"api/", "actions/", "persons/", "enable-totp">>,
       <<"actions/", "persons/", "enable-totp">>,
       <<"api/", "actions/", "persons/", "disable-totp">>,
       <<"actions/", "persons/", "disable-totp">>,
       <<"api/", "actions/", "persons/", "enable-email-otp">>,
       <<"actions/", "persons/", "enable-email-otp">>,
       <<"api/", "actions/", "persons/", "disable-email-otp">>,
       <<"actions/", "persons/", "disable-email-otp">>,
       <<"api/", "actions/", "persons/", "register-fido-device">>,
       <<"actions/", "persons/", "register-fido-device">>,
       <<"api/", "actions/", "persons/", "unregister-fido-device">>,
       <<"actions/", "persons/", "unregister-fido-device">>,
       <<"api/", "actions/", "persons/", "generate-recovery-codes">>,
       <<"actions/", "persons/", "generate-recovery-codes">> >>

\* _is_allowed_route(path), with request.method as a parameter.
_is_allowed_route(path, method) ==
    LET normalized == LStripSlash(path)
    IN IF method = "GET"
          /\ (StartsWith(normalized, <<"data/">>)
                \/ StartsWith(normalized, <<"api/", "data/">>))
       THEN TRUE
       ELSE IF \E k \in DOMAIN allowed_patterns :
                  StartsWith(normalized, allowed_patterns[k])
       THEN TRUE
       ELSE IF method = "OPTIONS" THEN TRUE
       ELSE FALSE

\* The gate lets the request through: the hook returns None.
\*   looked_up  the hook went as far as resolving the caller
Allow(looked_up) ==
    [kind |-> "allow", looked_up |-> looked_up, status_code |-> 0,
     content_type |-> "", body |-> <<>>]

\* An exception leaves the hook: the host application answers with an error.
Raise ==
    [kind |-> "raise", looked_up |-> TRUE, status_code |-> 500,
     content_type |-> "", body |-> <<>>]

\* is_api_request with the Accept header not looked at.
is_api_request_without_accept(req) ==
    \/ StartsWith(req.path, <<"/", "api/">>)
    \/ StartsWith(req.path, <<"/", "data/">>)
    \/ StartsWith(req.path, <<"/", "actions/">>)
    \/ req.is_json
    \/ InList("XMLHttpRequest", req.x_requested_with)

\* is_api_request of _handle_2fa_required (it reads request.path unstripped).
is_api_request(req) ==
    \/ StartsWith(req.path, <<"/", "api/">>)
    \/ StartsWith(req.path, <<"/", "data/">>)
    \/ StartsWith(req.path, <<"/", "actions/">>)
    \/ req.is_json
    \/ StartsWith(req.accept, <<"application/json">>)
    \/ InList("XMLHttpRequest", req.x_requested_with)

\* _handle_2fa_required(user_email): the 403 response, JSON or HTML.
_handle_2fa_required(req, user_email) ==
    IF is_api_request(req)
    THEN [kind |-> "block", looked_up |-> TRUE, status_code |-> 403,
          content_type |-> "application/json",
          body |-> [k \in {"error", "message", "2fa_required", "redirect_to",
                           "user_email"} |->
                      CASE k = "error" -> TRUE
                        [] k = "message" -> "2FA is required"
                        [] k = "2fa_required" -> TRUE
                        [] k = "redirect_to" -> "/profile"
                        [] k = "user_email" -> user_email]]
    ELSE [kind |-> "block", looked_up |-> TRUE, status_code |-> 403,
          content_type |-> "text/html",
          body |-> [k \in {"html", "refresh"} |->
                      CASE k = "html" -> "2FA Required"
                        [] k = "refresh" -> "/profile"]]

\* The checks both identity paths make once they hold the caller: exempt,
\* has 2FA, GET, else the 403. "fall" is falling out of the if to line 248.
CheckCaller(g, req, user_email, has2fa) ==
    IF _is_exempt_user(g, user_email) THEN Allow(TRUE)
    ELSE IF ~has2fa
    THEN IF req.method = "GET" THEN Allow(TRUE)
         ELSE _handle_2fa_required(req, user_email)
    ELSE Allow(TRUE)

\* Lines 163-189, the body of the outer try: the exception that leaves it
\* ("none" when it returns) and the value it returns.
\*   req.session  "missing"     importing flask_login raises ImportError
\*                "error"       reading current_user raises another exception
\*                "anonymous"   current_user is not authenticated
\*                "user_error"  authenticated; reading its attributes raises
\*                "user"        authenticated: req.user
SessionPath(g, req) ==
    CASE req.session = "missing" ->
            [raised |-> "ImportError", value |-> Allow(TRUE)]
      [] req.session \in {"error", "user_error"} ->
            [raised |-> "Exception", value |-> Allow(TRUE)]
      [] req.session = "anonymous" ->
            [raised |-> "none", value |-> Allow(TRUE)]
      [] req.session = "user" ->
            [raised |-> "none",
             value |-> CheckCaller(g, req, req.user.email,
                                   _has_2fa_enabled(req.user))]

\* Lines 193-242, the handler of the outer try's ImportError.
\*   req.token  "missing"      one of the three imports raises ImportError
\*              "broken"       one of them raises another exception
\*              "no_auth"      verify_jwt_in_request raises NoAuthorizationError
\*                             or InvalidHeaderError
\*              "error"        verifying, get_jwt_identity or get_person raises
\*                             another exception
\*              "no_identity"  get_jwt_identity() is None
\*              "no_person"    get_person() returns nothing
\*              "user"         get_person() returns req.user
TokenPath(g, req) ==
    CASE req.token = "missing" ->
            [raised |-> "none", value |-> Allow(TRUE)]
      [] req.token = "broken" ->
            [raised |-> "Exception", value |-> Allow(TRUE)]
      [] req.token \in {"no_auth", "error", "no_identity", "no_person"} ->
            [raised |-> "none", value |-> Allow(TRUE)]
      [] req.token = "user" ->
            [raised |-> "none",
             value |-> CheckCaller(g, req, req.user.email,
                                   _has_2fa_enabled(req.user))]

\* check_2fa_requirement(): what the before-request hook does with req. An
\* exception raised inside the "except ImportError" handler is not caught by
\* the "except Exception" clause of the same try statement: it leaves the hook.
check_2fa_requirement(g, req) ==
    IF ~g.require_2fa THEN Allow(FALSE)
    ELSE IF _is_allowed_route(LStripSlash(req.path), req.method)
    THEN Allow(FALSE)
    ELSE LET s == SessionPath(g, req)
         IN IF s.raised = "ImportError"
            THEN LET t == TokenPath(g, req)
                 IN IF t.raised = "none" THEN t.value ELSE Raise
            ELSE IF s.raised = "Exception" THEN Allow(TRUE)
            ELSE s.value

\* -------------------------------------------------- the gate as actions

\* request.path of the requests sent.
Paths ==
    { <<"/", "auth/", "login">>,
      <<"/", "api/", "auth/", "totp">>,
      <<"/", "/", "auth/", "email-otp">>,
      <<"/", "actions/", "persons/", "enable-totp">>,
      <<"/", "data/", "persons">>,
      <<"/", "api/", "data/", "tasks">>,
      <<"/", "actions/", "persons/", "change-password">>,
      <<"/", "profile">>,
      <<"/", "config", "uration">>,
      <<"/", "auth/", "reset-password">> }

Methods == { "GET", "POST", "DELETE", "OPTIONS" }

\* The Accept header: absent, or application/json.
AcceptValues == { <<>>, <<"application/json">> }

\* The X-Requested-With header: absent, or XMLHttpRequest.
RequestedWithValues == { <<>>, <<"XMLHttpRequest">> }

\* The callers the identity subsystems resolve: a person's email and flags.
Callers ==
    { Row(e, f, TRUE) : e \in {None, s_a, s_A, s_b}, f \in FlagChoices }

NoCaller == Row(None, <<FALSE, FALSE, FALSE>>, TRUE)

\* What the two identity subsystems do for a request: the session path's
\* outcome, the token path's outcome when the session path hands over to it,
\* and the caller when one of them resolves one.
Identities ==
    { [session |-> s, token |-> "unused", user |-> NoCaller] :
        s \in {"error", "anonymous", "user_error"} }
    \cup { [session |-> "user", token |-> "unused", user |-> u] :
             u \in Callers }
    \cup { [session |-> "missing", token |-> k, user |-> NoCaller] :
             k \in {"missing", "broken", "no_auth", "error", "no_identity",
                    "no_person"} }
    \cup { [session |-> "missing", token |-> "user", user |-> u] :
             u \in Callers }

Requests ==
    { [path |-> pa, method |-> m, is_json |-> j, accept |-> a,
       x_requested_with |-> x, session |-> id.session, token |-> id.token,
       user |-> id.user] :
        pa \in Paths, m \in Methods, j \in BOOLEAN, a \in AcceptValues,
        x \in RequestedWithValues, id \in Identities }

\* The gate constructed from the environment, and a request that has arrived.
GateInit ==
    /\ environ \in [exempt : ExemptEnvValues, require : RequireEnvValues]
    /\ gate = Enforce2FAMiddleware(environ)
    /\ request \in Requests
    /\ response = NoResponse
    /\ person = <<>>
    /\ run = NoRun
    /\ prev = [disabled_all |-> FALSE]
    /\ host = NoHost
    /\ earlier = NoEarlier

\* The host application runs the before-request hook on the request.
HandleRequest ==
    /\ response = NoResponse
    /\ response' = check_2fa_requirement(gate, request)
    /\ UNCHANGED <<person, environ, run, prev, gate, request, host, earlier>>

GateNext == HandleRequest

GateSpec == GateInit /\ [][GateNext]_vars

\* ------------------------- inject_2fa_middleware.py and zou_app_wrapper.py
\* The two start-up modules Gunicorn may be pointed at. Both begin with
\* "from zou.app import app as zou_app". The injection script uses zou_app as
\* the Flask application; the wrapper uses zou_app.app as the Flask
\* application. Zou is not part of this repository, so what the import
\* yields is an input:
\*   "flask"    zou_app is the Flask application (it has no attribute app)
\*   "package"  zou_app is an object whose attribute app is the Flask
\*              application (it has no before_request)

ZouAppKinds == {"flask", "package"}

\* Importing zou_2fa_middleware and constructing the gate: done, or an
\* exception.
LoadOutcomes == {"ok", "raises"}

\* The environments a server process is started in, or changed to later.
ServerEnvirons == [exempt : ExemptEnvValues, require : RequireEnvValues]

\* require_2fa as both start-up modules read it from os.environ.
require_2fa(env) ==
    StrLower(GetEnv(env.require, <<"F", "a", "l", "s", "e">>))
        \in { <<"t", "r", "u", "e">>, <<"1">>, yes }

\* Enforce2FAMiddleware(app), the constructor with its side effect: the
\* instance, the number of before_request registrations it made on app, and
\* whether it raised (app.before_request on an object that has none).
Enforce2FAMiddleware_init(env, app_is_flask) ==
    LET self == Enforce2FAMiddleware(env)
    IN IF ~self.require_2fa
       THEN [raised |-> FALSE, middleware |-> self, handlers |-> 0]
       ELSE IF ~app_is_flask
       THEN [raised |-> TRUE, middleware |-> NoGate, handlers |-> 0]
       ELSE [raised |-> FALSE, middleware |-> self, handlers |-> 1]

\* init_2fa_middleware(app)
init_2fa_middleware(env, app_is_flask) ==
    Enforce2FAMiddleware_init(env, app_is_flask)

\* The started process: the host record and the gate instance it holds.
Started(script, env, kind, load, exported, handlers, middleware) ==
    [ host |-> [NoHost EXCEPT !.script = script, !.environ = env,
                              !.zou_app = kind, !.load = load,
                              !.exported = exported, !.handlers = handlers],
      gate |-> middleware ]

\* The module body of inject_2fa_middleware.py: the constructor registers the
\* hook on zou_app, and line 34 registers it again; any exception of the try
\* block is printed and the app is exported all the same.
inject_2fa_middleware(env, kind, load) ==
    LET m == Enforce2FAMiddleware_init(env, kind = "flask")
        exported == kind = "flask"
    IN IF ~require_2fa(env)
       THEN Started("inject", env, kind, load, exported, 0, NoGate)
       ELSE IF load = "raises" \/ m.raised
       THEN Started("inject", env, kind, load, exported, 0, NoGate)
       ELSE Started("inject", env, kind, load, exported, m.handlers + 1,
                    m.middleware)

\* The module body of zou_app_wrapper.py: line 24 reads zou_app.app outside
\* any try (on a Flask application the AttributeError ends the import and
\* nothing is exported); then init_2fa_middleware(app) inside the try.
zou_app_wrapper(env, kind, load) ==
    LET m == init_2fa_middleware(env, TRUE)
    IN IF kind = "flask"
       THEN Started("wrapper", env, kind, load, FALSE, 0, NoGate)
       ELSE IF ~require_2fa(env)
       THEN Started("wrapper", env, kind, load, TRUE, 0, NoGate)
       ELSE IF load = "raises" \/ m.raised
       THEN Started("wrapper", env, kind, load, TRUE, 0, NoGate)
       ELSE Started("wrapper", env, kind, load, TRUE, m.handlers,
                    m.middleware)

\* What app.before_request(f) sets up: Flask calls the registered functions
\* in order before the view and stops at the first that returns a response
\* (or raises). The response of the gate, and how many times it ran.
preprocess_request(handlers, g, req) ==
    LET first == check_2fa_requirement(g, req)
    IN IF handlers = 0
       THEN [response |-> Allow(FALSE), executions |-> 0]
       ELSE IF first.kind = "allow"
       THEN [response |-> first, executions |-> handlers]
       ELSE [response |-> first, executions |-> 1]

\* The requests sent to the started server: a session user a@x, with no 2FA
\* method or with one, getting or posting a guarded or an allow-listed path.
ServerRequests ==
    { r \in Requests :
        /\ r.path \in { <<"/", "profile">>, <<"/", "auth/", "login">> }
        /\ r.method \in {"GET", "POST"}
        /\ ~r.is_json /\ r.accept = <<>> /\ r.x_requested_with = <<>>
        /\ r.session = "user"
        /\ r.user.email = s_a }

\* Before Gunicorn imports a start-up module.
ServerInit ==
    /\ environ \in ServerEnvirons
    /\ host = NoHost
    /\ gate = NoGate
    /\ request = NoRequest
    /\ response = NoResponse
    /\ earlier = NoEarlier
    /\ person = <<>>
    /\ run = NoRun
    /\ prev = [disabled_all |-> FALSE]

\* gunicorn inject_2fa_middleware:app
\* The load outcome is not read when enforcement is off.
StartInjected ==
    /\ host.script = "none"
    /\ \E kind \in ZouAppKinds,
          load \in IF require_2fa(environ) THEN LoadOutcomes ELSE {"ok"} :
          LET s == inject_2fa_middleware(environ, kind, load)
          IN host' = s.host /\ gate' = s.gate
    /\ UNCHANGED <<person, environ, run, prev, request, response, earlier>>

\* gunicorn zou_app_wrapper:app
StartWrapped ==
    /\ host.script = "none"
    /\ \E kind \in ZouAppKinds,
          load \in IF require_2fa(environ) THEN LoadOutcomes ELSE {"ok"} :
          LET s == zou_app_wrapper(environ, kind, load)
          IN host' = s.host /\ gate' = s.gate
    /\ UNCHANGED <<person, environ, run, prev, request, response, earlier>>

\* The exported application receives a request.
ServeRequest ==
    /\ host.exported
    /\ \E req \in ServerRequests :
          LET d == preprocess_request(host.handlers, gate, req)
          IN /\ request' = req
             /\ response' = d.response
             /\ host' = [host EXCEPT !.executions = d.executions]
    /\ earlier' = [request |-> request, response |-> response]
    /\ UNCHANGED <<person, environ, run, prev, gate>>

\* The environment changes while the server runs (the .env file is edited,
\* os.environ is assigned): nothing reads it.
EnvironChanges ==
    /\ host.script # "none"
    /\ environ' \in ServerEnvirons \ {environ}
    /\ UNCHANGED <<person, run, prev, gate, request, response, host, earlier>>

ServerNext == StartInjected \/ StartWrapped \/ ServeRequest \/ EnvironChanges

ServerSpec == ServerInit /\ [][ServerNext]_vars

\* ------------------------------------------------------------ CLI claims

\* A sequence as the set of its elements.
Range(s) == { s[k] : k \in DOMAIN s }

\* The affirmative confirmation: "yes" in any letter case.
Affirmative(answer) == StrLower(answer) = yes

\* The exempt emails as the CLI reads them from the environment.
CliExempt == Range(get_exempt_users(environ.exempt))

\* C1: an enforce() run whose confirmation answer is not the affirmative
\* (or that never asked) leaves the table as it was before the call.
C1_NoMutationWithoutConfirmation ==
    (run.op = "enforce" /\ ~Affirmative(run.answer)) => person = run.pre

\* C1 witness: enforce() listed accounts, asked, was refused, changed nothing.
C1_Witness ==
    /\ run.op = "enforce"
    /\ run.asked
    /\ run.listed # <<>>
    /\ run.answer = <<"y">>
    /\ run.report = "cancelled"
    /\ person = run.pre

\* C6: an enforce() run that directly follows a confirmed enforce() run which
\* disabled all the accounts it listed asks for no confirmation, lists
\* nothing, changes no row and, when its SELECT succeeds, returns 0 with one
\* of the two "No action needed" messages.
C6_EnforceIdempotent ==
    (run.op = "enforce" /\ prev.disabled_all) =>
        /\ ~run.asked
        /\ run.listed = <<>>
        /\ run.attempted = <<>>
        /\ person = run.pre
        /\ run.fetched =>
              /\ run.status = "returned"
              /\ run.result = 0
              /\ run.report \in {"no_action_all_2fa", "no_action_all_exempt"}

\* C6 witness: the second of two enforce() runs, the first of which disabled
\* an account that is inactive now, returned 0.
C6_Witness ==
    /\ run.op = "enforce"
    /\ prev.disabled_all
    /\ run.fetched
    /\ run.result = 0
    /\ \E i \in Ids : ~person[i].active /\ person[i].email \notin CliExempt

\* The rows audit() counts according to C7: active, with an email, no 2FA
\* method, and not exempt.
NonCompliant(p) ==
    { i \in DOMAIN p :
        /\ p[i].active
        /\ p[i].email # None
        /\ ~p[i].totp_enabled /\ ~p[i].email_otp_enabled /\ ~p[i].fido_enabled
        /\ p[i].email \notin CliExempt }

\* The rows audit() does count: as above, exempt or not.
ActiveWithout2FA(p) ==
    { i \in DOMAIN p :
        /\ p[i].active
        /\ p[i].email # None
        /\ ~p[i].totp_enabled /\ ~p[i].email_otp_enabled /\ ~p[i].fido_enabled }

\* C7 as stated: audit() returns the number of non-compliant active accounts,
\* exempt accounts left out, which is the number of accounts enforce() would
\* list on the same table and exempt list.
C7_AuditCountsNonCompliant ==
    (run.op = "audit" /\ run.fetched) =>
        /\ run.result = Cardinality(NonCompliant(run.pre))
        /\ run.result =
              Len(UsersToDisable(run.pre, get_exempt_users(environ.exempt)))

\* C7 amended: audit() returns the number of active accounts with an email
\* and no 2FA method, the exempt ones included: the accounts enforce() would
\* list plus the exempt accounts without 2FA.
C7_AuditCountsActiveWithout2FA ==
    (run.op = "audit" /\ run.fetched) =>
        /\ run.result = Cardinality(ActiveWithout2FA(run.pre))
        /\ Range(run.without_2fa) = ActiveWithout2FA(run.pre)
        /\ run.result =
              Len(UsersToDisable(run.pre, get_exempt_users(environ.exempt)))
              + Cardinality(ActiveWithout2FA(run.pre) \ NonCompliant(run.pre))

\* C7 witness: an audit counted an exempt account without 2FA.
C7_Witness ==
    /\ run.op = "audit"
    /\ run.fetched
    /\ run.result > 0
    /\ \E i \in Range(run.without_2fa) : person[i].email \in CliExempt

\* At least one of the three 2FA flags of the row is true.
AnyFlag(user) ==
    user.totp_enabled \/ user.email_otp_enabled \/ user.fido_enabled

\* C8 as stated: the audit puts every account (a row with an email) that has
\* a 2FA flag true in the with-2FA bucket, whatever its other fields.
C8_AnyFlagIsWith2FA ==
    (run.op = "audit" /\ run.fetched) =>
        \A i \in Ids :
            (run.pre[i].email # None /\ AnyFlag(run.pre[i]))
            => i \in Range(run.with_2fa)

\* C8 amended: the audit puts every active account that has an email and a
\* 2FA flag true in the with-2FA bucket, exempt or not; an inactive account
\* with an email is in the inactive bucket whatever its flags, and a row
\* without an email is in no bucket.
C8_ActiveAnyFlagIsWith2FA ==
    (run.op = "audit" /\ run.fetched) =>
        \A i \in Ids :
            /\ (AnyFlag(run.pre[i]) /\ run.pre[i].active
                  /\ run.pre[i].email # None)
               => i \in Range(run.with_2fa)
            /\ (~run.pre[i].active /\ run.pre[i].email # None)
               => i \in Range(run.inactive) \ Range(run.with_2fa)
            /\ run.pre[i].email = None
               => i \notin Range(run.with_2fa) \cup Range(run.inactive)
                            \cup Range(run.without_2fa)

\* C8 witness: an audit put an exempt active account whose only method is
\* FIDO in the with-2FA bucket.
C8_Witness ==
    /\ run.op = "audit"
    /\ run.fetched
    /\ \E i \in Range(run.with_2fa) :
          /\ person[i].email \in CliExempt
          /\ person[i].fido_enabled
          /\ ~person[i].totp_enabled

\* C9 as stated: in a confirmed enforce() run that returns its count, every
\* listed account was attempted, the accounts whose UPDATE succeeded are
\* inactive afterwards, the accounts whose UPDATE failed are still active, and
\* the count is the number of UPDATEs that succeeded.
C9_WriteFailureIsolated ==
    (run.op = "enforce" /\ run.report = "disabled") =>
        /\ run.attempted = run.listed
        /\ \A i \in run.updated : ~person[i].active
        /\ \A i \in Range(run.listed) \ run.updated : person[i].active
        /\ run.result = Cardinality(run.updated)

\* C10: an enforce() run that returns -1 leaves the table as it was before
\* the call; and a run that fails in any way (-1 or an exception) never
\* leaves some of its listed accounts disabled and others not.
C10_FailureLeavesNothingCommitted ==
    /\ (run.op = "enforce" /\ run.status = "returned" /\ run.result = -1)
       => person = run.pre
    /\ (run.op = "enforce" /\ (run.status = "raised" \/ run.result = -1))
       => \/ person = run.pre
          \/ \A i \in Range(run.listed) : ~person[i].active

\* C10 witness: the COMMIT of a confirmed run failed after an UPDATE had
\* succeeded; the run returned -1 and the table is as before.
C10_Witness ==
    /\ run.op = "enforce"
    /\ run.status = "returned"
    /\ run.result = -1
    /\ run.updated # {}
    /\ person = run.pre

\* ----------------------------------------------------------- gate claims

\* The hook has run on the request.
Handled == response.kind # "none"

\* One of the identity paths resolved an authenticated caller: request.user.
CallerResolved ==
    \/ request.session = "user"
    \/ request.session = "missing" /\ request.token = "user"

\* The resolved caller's email is in the gate's exempt set, letter case apart.
CallerExempt ==
    /\ request.user.email # None
    /\ StrLower(request.user.email) \in Range(gate.exempt_users)

\* The resolved caller has none of the three 2FA methods.
CallerWithout2FA ==
    /\ ~request.user.totp_enabled
    /\ ~request.user.email_otp_enabled
    /\ ~request.user.fido_enabled

\* The path, leading slashes stripped, starts with an allow-list prefix.
OnAllowList ==
    \E k \in DOMAIN allowed_patterns :
        StartsWith(LStripSlash(request.path), allowed_patterns[k])

\* The request is an API call: by path prefix, JSON body, Accept header or
\* the ajax header.
ApiCall ==
    \/ \E pre \in {"api/", "data/", "actions/"} :
          Len(request.path) >= 2 /\ request.path[1] = "/"
              /\ request.path[2] = pre
    \/ request.is_json
    \/ (request.accept # <<>> /\ Head(request.accept) = "application/json")
    \/ "XMLHttpRequest" \in Range(request.x_requested_with)

\* The response is the 403 whose body holds 2fa_required: true.
BlockedWithFlag ==
    /\ response.kind = "block"
    /\ response.status_code = 403
    /\ "2fa_required" \in DOMAIN response.body
    /\ response.body["2fa_required"] = TRUE

\* C2 as stated: with enforcement on, every POST of a resolved, non-exempt
\* caller without 2FA gets the 403 whose body holds 2fa_required: true, for
\* every path and all headers.
C2_PostWithout2FABlockedWithFlag ==
    (Handled /\ gate.require_2fa /\ request.method = "POST"
        /\ CallerResolved /\ ~CallerExempt /\ CallerWithout2FA)
    => BlockedWithFlag

\* C2 amended: with enforcement on, every POST to a path off the allow-list by
\* a resolved, non-exempt caller without 2FA gets a 403: the JSON body with
\* 2fa_required: true and the caller's email when the request is an API call,
\* else the HTML page, which has no 2fa_required field.
C2_PostWithout2FABlocked ==
    (Handled /\ gate.require_2fa /\ request.method = "POST" /\ ~OnAllowList
        /\ CallerResolved /\ ~CallerExempt /\ CallerWithout2FA)
    => /\ response.kind = "block"
       /\ response.status_code = 403
       /\ ApiCall =>
             /\ BlockedWithFlag
             /\ response.content_type = "application/json"
             /\ response.body["user_email"] = request.user.email
       /\ ~ApiCall =>
             /\ response.content_type = "text/html"
             /\ "2fa_required" \notin DOMAIN response.body

\* C2 witness: a POST to /profile that only its Accept header makes an API
\* call was blocked with the JSON body.
C2_Witness ==
    /\ Handled
    /\ request.method = "POST"
    /\ request.path = <<"/", "profile">>
    /\ request.accept = <<"application/json">>
    /\ ~request.is_json
    /\ request.x_requested_with = <<>>
    /\ CallerResolved
    /\ BlockedWithFlag

\* C3 as stated: the gate either allows or blocks; it blocks only with
\* enforcement on, a path off the allow-list, a method other than GET and
\* OPTIONS, and a resolved, non-exempt caller without 2FA; and every request
\* with enforcement off, every GET, every request of an exempt caller and of a
\* caller with a 2FA method is allowed.
C3_BlockOnlyWhenAllHold ==
    Handled =>
        /\ response.kind \in {"allow", "block"}
        /\ response.kind = "block" =>
              /\ gate.require_2fa
              /\ ~OnAllowList
              /\ request.method \notin {"GET", "OPTIONS"}
              /\ CallerResolved
              /\ ~CallerExempt
              /\ CallerWithout2FA
        /\ ~gate.require_2fa => response.kind = "allow"
        /\ request.method = "GET" => response.kind = "allow"
        /\ (CallerResolved /\ CallerExempt) => response.kind = "allow"
        /\ (CallerResolved /\ ~CallerWithout2FA) => response.kind = "allow"

\* An identity subsystem raised while the caller was resolved or the caller's
\* 2FA status read (flask_login being absent is not a failure: it selects
\* the token path).
ResolutionFailed ==
    \/ request.session \in {"error", "user_error"}
    \/ request.session = "missing"
          /\ request.token \in {"missing", "broken", "error"}

\* C4 as stated: when identity resolution or the 2FA computation raises, in
\* either path, loading the token or person-lookup subsystem included, the
\* gate allows the request and no exception leaves the hook.
C4_FailOpen ==
    (Handled /\ ResolutionFailed) => response.kind = "allow"

\* The authentication and 2FA self-configuration prefixes of the allow-list,
\* without their api/ variants.
AuthPrefixes ==
    { <<"auth/", "login">>, <<"auth/", "logout">>,
      <<"auth/", "authenticated">>, <<"auth/", "register">>,
      <<"auth/", "totp">>, <<"auth/", "fido">>, <<"auth/", "email-otp">>,
      <<"auth/", "recovery-codes">>,
      <<"actions/", "persons/", "enable-totp">>,
      <<"actions/", "persons/", "disable-totp">>,
      <<"actions/", "persons/", "enable-email-otp">>,
      <<"actions/", "persons/", "disable-email-otp">>,
      <<"actions/", "persons/", "register-fido-device">>,
      <<"actions/", "persons/", "unregister-fido-device">>,
      <<"actions/", "persons/", "generate-recovery-codes">> }

\* The request's path, leading slashes stripped, starts with one of them,
\* with or without api/ in front.
OnAuthPath ==
    \E pre \in AuthPrefixes :
        \/ StartsWith(LStripSlash(request.path), pre)
        \/ StartsWith(LStripSlash(request.path), <<"api/">> \o pre)

\* C5: every request to an authentication or 2FA self-configuration path is
\* allowed, whatever the method, the caller and the state of the identity
\* subsystems, and the gate decides so without resolving the caller.
C5_AuthPathsAllowed ==
    (Handled /\ OnAuthPath) =>
        /\ response.kind = "allow"
        /\ ~response.looked_up

\* C5 witness: with enforcement on, a POST to /api/auth/totp was allowed with
\* no lookup although the token subsystem would have failed to load.
C5_Witness ==
    /\ Handled
    /\ gate.require_2fa
    /\ request.path = <<"/", "api/", "auth/", "totp">>
    /\ request.method = "POST"
    /\ request.session = "missing"
    /\ request.token = "broken"
    /\ response.kind = "allow"
    /\ ~response.looked_up

\* ------------------------------------------------------ enable-user claims

\* The rows of table p whose email is the one given to enable_user.
EnableTarget(p, email) == { i \in DOMAIN p : p[i].email = email }

\* The last operation was enable_user and it got the row it asked for.
EnableLookedUp == run.op = "enable" /\ run.fetched

\* C11: enable_user(email) changes the table only by setting active from false
\* to true on the account with that email, and only when that account exists,
\* is inactive, and has a 2FA method or the operator answered yes. When the
\* email is not found it fails, when the account is already active it
\* succeeds, when it is inactive without 2FA and the operator declines it
\* fails, and in these three cases no row changes.
C11_EnableUserFrame ==
    run.op = "enable" =>
        LET found == EnableTarget(run.pre, run.target)
        IN /\ DOMAIN person = DOMAIN run.pre
           /\ \A i \in DOMAIN person :
                 \/ person[i] = run.pre[i]
                 \/ /\ i \in found
                    /\ ~run.pre[i].active
                    /\ person[i] = [run.pre[i] EXCEPT !.active = TRUE]
                    /\ \/ has_2fa(run.pre[i])
                       \/ run.asked /\ Affirmative(run.answer)
           /\ (EnableLookedUp /\ found = {})
                 => (~run.success /\ person = run.pre)
           /\ (EnableLookedUp /\ \E i \in found : run.pre[i].active)
                 => (run.success /\ run.status = "returned"
                     /\ person = run.pre)
           /\ (EnableLookedUp
                 /\ (\E i \in found : ~run.pre[i].active
                                      /\ ~has_2fa(run.pre[i]))
                 /\ ~Affirmative(run.answer))
                 => (~run.success /\ run.status = "returned"
                     /\ person = run.pre)

\* An inactive account without 2FA was re-activated after the operator
\* answered yes, and nothing else changed.
C11_Witness ==
    /\ run.op = "enable"
    /\ run.report = "enabled"
    /\ run.asked /\ Affirmative(run.answer)
    /\ \E i \in EnableTarget(run.pre, run.target) :
          /\ ~run.pre[i].active /\ ~has_2fa(run.pre[i])
          /\ person[i].active
          /\ \A j \in DOMAIN person \ {i} : person[j] = run.pre[j]

\* ------------------------------------------------------- exit-code claims

\* The last operation was audit or enforce.
AuditOrEnforce == run.op \in {"audit", "enforce"}

\* The operation returned the negative sentinel.
ReturnedSentinel == run.status = "returned" /\ run.result = -1

\* The database connection could not be opened.
ConnectionRefused == run.status = "exit"

\* enable_user told the operator that it failed.
EnableReportedFailure ==
    run.report \in {"not_found", "cancelled", "database_error",
                    "connect_error"}

GateOfEnviron == Enforce2FAMiddleware(environ)

\* C13: exemption is decided on lower-cased emails and identically by the CLI
\* and the gate: of the accounts enforce fetched, it leaves out of the set it
\* disables exactly those whose email the gate treats as exempt.
C13_ExemptionAgrees ==
    (run.op = "enforce" /\ run.fetched) =>
        \A i \in Range(EnforceQuery(run.pre)) :
            (i \notin Range(UsersToDisable(run.pre,
                                           get_exempt_users(environ.exempt))))
            <=> _is_exempt_user(GateOfEnviron, run.pre[i].email)

\* ----------------------------------------------------------- frame claims

\* The email is in the exempt set: the configured items, lower-cased, hold
\* the lower-cased email.
InExemptSet(email) ==
    email # None /\ StrLower(email) \in { StrLower(x) : x \in CliExempt }

\* C15: audit changes no field of any account; a confirmed enforce changes
\* only the active flag, only from true to false, and only on accounts that
\* when fetched were active, had an email, had the three 2FA flags false and
\* were not exempt. Every other account and every other field is unchanged.
C15_AuditEnforceFrame ==
    /\ run.op = "audit" => person = run.pre
    /\ run.op = "enforce" =>
          /\ DOMAIN person = DOMAIN run.pre
          /\ \A i \in DOMAIN person :
                \/ person[i] = run.pre[i]
                \/ /\ run.asked /\ Affirmative(run.answer)
                   /\ person[i] = [run.pre[i] EXCEPT !.active = FALSE]
                   /\ run.pre[i].active
                   /\ run.pre[i].email # None
                   /\ ~AnyFlag(run.pre[i])
                   /\ ~InExemptSet(run.pre[i].email)

\* ----------------------------------------------------------- server claims

\* The gate is registered and has handled a request.
GateServed == host.handlers > 0 /\ request # NoRequest

\* Request r2 is request r1 sent again by the same caller, whose 2FA flags
\* may have changed.
SameButFlags(r1, r2) ==
    /\ r1 # NoRequest
    /\ r2 = [r1 EXCEPT !.user = r2.user]
    /\ r2.user.email = r1.user.email

\* C14: the gate keeps no state between requests. Its decision is a function
\* of the flag and exempt list read when it was constructed and of the
\* request: two identical requests get the same decision, a caller blocked
\* on one request is allowed on the next once one of their 2FA flags is
\* true, and a later change of the environment changes no decision.
C14_GateStateless ==
    GateServed =>
        /\ gate = Enforce2FAMiddleware(host.environ)
        /\ response =
              check_2fa_requirement(Enforce2FAMiddleware(host.environ),
                                    request)
        /\ earlier.request = request => earlier.response = response
        /\ (/\ earlier.response.kind = "block"
            /\ SameButFlags(earlier.request, request)
            /\ _has_2fa_enabled(request.user))
              => response.kind = "allow"

\* A caller was blocked, the exempt list or the flag in the environment was
\* changed, and the same request by the caller, now with a 2FA method, is
\* allowed.
C14_Witness ==
    /\ GateServed
    /\ environ # host.environ
    /\ earlier.response.kind = "block"
    /\ SameButFlags(earlier.request, request)
    /\ ~_has_2fa_enabled(earlier.request.user)
    /\ _has_2fa_enabled(request.user)
    /\ response.kind = "allow"

\* The start-up module was given the zou_app object it is written for.
HostAsExpected ==
    \/ host.script = "inject" /\ host.zou_app = "flask"
    \/ host.script = "wrapper" /\ host.zou_app = "package"

\* C16: with enforcement on, each start-up path registers the gate once, so
\* that it runs once per request; with enforcement off, or when loading the
\* middleware raises, no handler is registered, and the application is
\* exported all the same.
C16_RegisteredOnce ==
    HostAsExpected =>
        /\ (require_2fa(host.environ) /\ host.load = "ok")
              => /\ host.handlers = 1
                 /\ host.exported
                 /\ request # NoRequest => host.executions = 1
        /\ (~require_2fa(host.environ) \/ host.load = "raises")
              => /\ host.handlers = 0
                 /\ host.exported
                 /\ host.executions = 0

====
